---- MODULE Spec2Model ----
(***************************************************************************)
(* Article capture extension: region detection (article-detector), the     *)
(* scroll-and-capture orchestrators of the background service worker, the  *)
(* content-script handlers they talk to, and the stitching and PDF export  *)
(* of the captured segments.                                               *)
(*                                                                         *)
(* Three builds of the background orchestrator live in the repository:     *)
(*   "hybrid"    src/background.js:113-420   (scroll + captureVisibleTab,  *)
(*                                            stitched in the page)        *)
(*   "offscreen" src/unnamed/part_000        (scroll + captureVisibleTab,  *)
(*                                            hide-noise, offscreen stitch)*)
(*   "direct"    src/popup.js:91-238         (html2canvas in the page)     *)
(* The variable variant says which one is installed.                       *)
(*                                                                         *)
(* Lengths are integers (CSS pixels); the pixel density is carried as      *)
(* twice its value (dpr2 = 2 is density 1, 3 is 1.5, 4 is 2) so that       *)
(* Math.floor and Math.ceil of a product stay exact.  Scores of the        *)
(* detector are carried times 100 (textLen / 100 is a fraction).           *)
(***************************************************************************)
EXTENDS Integers, Sequences, FiniteSets, TLC

VARIABLES
  variant,      \* which background build is installed
  page,         \* geometry of the live document
  scrollY,      \* window.scrollY of the tab
  noise,        \* the noise elements of the detected region, in document order
  display,      \* element.style.display of every noise element
  restores,     \* how many times restoreNoise assigned each element's display
  reqs,         \* the start-capture requests the popup sessions can issue
  req,          \* per request: the locals of captureArticle and its history
  offscreenReady, \* the flag of ensureOffscreen
  offscreenDocs,  \* number of offscreen documents that exist
  doc,          \* the document tree seen by the detector
  detected,     \* what detectArticle / detectAndMeasure returned
  job,          \* the stitch / export job running in the page or offscreen document
  scored,       \* the scores scoreElement returned for the elements of doc
  noiseBackup,  \* the response of a hide-noise message, once it is answered
  tab           \* the content-script world of the tab: flag and listeners

vars == <<variant, page, scrollY, noise, display, restores, reqs, req,
          offscreenReady, offscreenDocs, doc, detected, job, scored,
                 noiseBackup, tab>>

-----------------------------------------------------------------------------
(* Bounds of the model *)

MaxCandidates == 2
NumNoise == 1
MaxSteps == 6     \* turns of the capture loop that the history of a request counts

(* Program constants *)

Retries == 5
Padding == 16
SemanticMinText == 200
AcceptScore100 == 1000
SmallText == 50

Max(a, b) == IF a >= b THEN a ELSE b
Min(a, b) == IF a <= b THEN a ELSE b

(* Math.floor(x * dpr) and Math.ceil(x * dpr) with dpr = dpr2 / 2 *)
FloorDpr(x, dpr2) == (x * dpr2) \div 2
CeilDpr(x, dpr2) == -((-(x * dpr2)) \div 2)
(* Math.ceil(a / b), b > 0 *)
CeilDiv(a, b) == -((-a) \div b)

-----------------------------------------------------------------------------
(* Article detector: src/unnamed/part_002 *)

NoElement == -1   \* null
Body == 0         \* document.body

(* POSITIVE_PATTERN / NEGATIVE_PATTERN on className + " " + id.  The class   *)
(* tokens of the model: "post-content" matches only the positive pattern,  *)
(* "sidebar" only the negative one, "" neither.                            *)
POSITIVE_PATTERN(cls) == cls \in {"post-content", "entry-content", "article-body"}
NEGATIVE_PATTERN(cls) == cls \in {"sidebar"}

getTotalTextLength(el) == el.textLen

(* getLinkDensity(el) > t / 100, decided exactly on the integers: the      *)
(* density is linkLen / textLen, and 1 when there is no text               *)
LinkDensityAboveMutReversed(el, t) ==
  IF getTotalTextLength(el) = 0 THEN 100 > t
  ELSE el.linkLen * 100 <= t * getTotalTextLength(el)

LinkDensityAbove(el, t) ==
  IF getTotalTextLength(el) = 0 THEN 100 > t
  ELSE el.linkLen * 100 > t * getTotalTextLength(el)

scoreElement(el) ==
  (IF el.tag = "ARTICLE" THEN 3000 ELSE 0)
  + (IF el.tag = "MAIN" THEN 2500 ELSE 0)
  + (IF el.tag = "SECTION" THEN 500 ELSE 0)
  + (IF el.tag = "DIV" THEN 100 ELSE 0)
  + (IF el.role = "main" THEN 2500 ELSE 0)
  + (IF el.role = "article" THEN 2000 ELSE 0)
  + (IF el.itemprop \in {"articleBody", "text"} THEN 3000 ELSE 0)
  + (IF POSITIVE_PATTERN(el.cls) THEN 2000 ELSE 0)
  - (IF NEGATIVE_PATTERN(el.cls) THEN 3000 ELSE 0)
  + Min(getTotalTextLength(el), 3000)
  + Min(el.pCount * 300, 3000)
  + Min(el.imgCount * 200, 1000)
  - (IF LinkDensityAbove(el, 50) THEN 3000 ELSE 0)
  - (IF LinkDensityAbove(el, 30) THEN 1500 ELSE 0)
  - (IF getTotalTextLength(el) < SmallText THEN 2000 ELSE 0)

(* The ordered list semanticSelectors, each as a predicate on an element.  *)
(* inArticle: the element has an <article> ancestor; inRoleArticle: it has *)
(* an ancestor with role="article".                                        *)
NumSelectors == 13

MatchesSelector(k, el) ==
  CASE k = 1 -> el.itemprop = "articleBody"
    [] k = 2 -> el.inRoleArticle /\ el.itemprop = "text"
    [] k = 3 -> el.inArticle /\ el.cls = "post-content"
    [] k = 4 -> el.inArticle /\ el.cls = "entry-content"
    [] k = 5 -> el.inArticle /\ el.cls = "article-body"
    [] k = 6 -> el.inArticle /\ el.cls = "article-content"
    [] k = 7 -> el.cls = "post-content"
    [] k = 8 -> el.cls = "entry-content"
    [] k = 9 -> el.cls = "article-body"
    [] k = 10 -> el.cls = "article-content"
    [] k = 11 -> el.tag = "ARTICLE"
    [] k = 12 -> el.tag = "MAIN"
    [] OTHER -> el.role = "main"

(* document.querySelector: the first match in document order, or null *)
querySelector(d, k) ==
  LET hits == {i \in DOMAIN d : MatchesSelector(k, d[i])}
  IN  IF hits = {} THEN NoElement
      ELSE CHOOSE i \in hits : \A j \in hits : i <= j

(* Step 1 of detectArticle: the first selector whose first match has more  *)
(* than 200 characters of text                                             *)
SemanticMatch(d) ==
  LET ok == {k \in 1..NumSelectors :
               /\ querySelector(d, k) # NoElement
               /\ getTotalTextLength(d[querySelector(d, k)]) > SemanticMinText}
  IN  IF ok = {} THEN NoElement
      ELSE querySelector(d, CHOOSE k \in ok : \A j \in ok : k <= j)

(* querySelectorAll("div, section, article, main") minus the skipped ones  *)
IsCandidate(el) ==
  /\ el.tag \in {"DIV", "SECTION", "ARTICLE", "MAIN"}
  /\ ~el.underExcluded
  /\ ~el.hidden

(* The scoring loop: best = <<bestElement, bestScore>>; NoScore stands for *)
(* -Infinity                                                               *)
NoScore == -1000000

RECURSIVE ScoreLoopMutGe(_, _, _)
ScoreLoopMutGe(d, i, best) ==
  IF i > Len(d) THEN best
  ELSE IF IsCandidate(d[i]) /\ scoreElement(d[i]) >= best[2]
       THEN ScoreLoopMutGe(d, i + 1, <<i, scoreElement(d[i])>>)
       ELSE ScoreLoopMutGe(d, i + 1, best)

RECURSIVE ScoreLoop(_, _, _)
ScoreLoop(d, i, best) ==
  IF i > Len(d) THEN best
  ELSE IF IsCandidate(d[i]) /\ scoreElement(d[i]) > best[2]
       THEN ScoreLoop(d, i + 1, <<i, scoreElement(d[i])>>)
       ELSE ScoreLoop(d, i + 1, best)

(* The fallback of detectArticle: body when the best score is below 10 *)
HeuristicMutNoFallback(d, hasBody) ==
  ScoreLoop(d, 1, <<NoElement, NoScore>>)[1]

Heuristic(d, hasBody) ==
  LET best == ScoreLoop(d, 1, <<NoElement, NoScore>>)
  IN  IF best[2] < AcceptScore100
      THEN (IF hasBody THEN Body ELSE NoElement)
      ELSE best[1]

detectArticle(d, hasBody) ==
  IF SemanticMatch(d) # NoElement THEN SemanticMatch(d)
  ELSE Heuristic(d, hasBody)

(* detectAndMeasure, its first lines: the error for a null article *)
DetectResponse(d, hasBody) ==
  IF detectArticle(d, hasBody) = NoElement THEN "error" ELSE "info"

-----------------------------------------------------------------------------
(* Content script: src/content.js *)

NoY == -1   \* undefined (a missing scrollY)

(* detectAndMeasure, the info object.  rectTop / rectLeft are the absolute *)
(* page coordinates rect.top + scrollTop and rect.left + scrollLeft.  The  *)
(* object has no scrollY field, so info.scrollY reads undefined.           *)
detectAndMeasure(pg) ==
  [top |-> Max(0, pg.rectTop - Padding),
   left |-> Max(0, pg.rectLeft - Padding),
   width |-> pg.rectWidth + Padding * 2,
   height |-> pg.rectHeight + Padding * 2,
   viewportWidth |-> pg.innerWidth,
   viewportHeight |-> pg.innerHeight,
   pageHeight |-> pg.scrollHeight,
   dpr2 |-> pg.dpr2,
   scrollY |-> NoY]

NoInfo ==
  [top |-> 0, left |-> 0, width |-> 0, height |-> 0, viewportWidth |-> 0,
   viewportHeight |-> 0, pageHeight |-> 0, dpr2 |-> 0, scrollY |-> NoY]

(* window.scrollTo({top: y}): the browser clamps to the scrollable range;  *)
(* an undefined top leaves the vertical position alone                     *)
MaxScroll(pg) == Max(0, pg.scrollHeight - pg.innerHeight)

scrollToPosition(pg, cur, y) ==
  IF y = NoY THEN cur ELSE Max(0, Min(y, MaxScroll(pg)))

(* The elements of the document that matter for the noise backup, in      *)
(* document order: tag, id (0 is "no id attribute") and parent (the index  *)
(* of the parent element, 0 for a child of the body).                      *)
REMOVE_TAGS ==
  {"SCRIPT", "STYLE", "NOSCRIPT", "IFRAME", "NAV", "FOOTER", "HEADER", "ASIDE"}

(* findNoisyChildren of the region, by the tag test; the region is the     *)
(* whole list                                                              *)
findNoisyChildren(els) ==
  SelectSeq([i \in 1..Len(els) |-> i], LAMBDA i : els[i].tag \in REMOVE_TAGS)

(* getUniqueSelector: Array.from(parent.children).filter(same tagName) and *)
(* the position of the element among them                                  *)
SameTag(els, i) ==
  {j \in DOMAIN els : els[j].parent = els[i].parent /\ els[j].tag = els[i].tag}
SameTagBefore(els, i) == {j \in SameTag(els, i) : j <= i}

(* one step of the selector: "#id", "tag" or "tag:nth-of-type(n)" *)
SelectorPart(els, i) ==
  IF els[i].id # 0 THEN [id |-> els[i].id, tag |-> "", nth |-> 0]
  ELSE [id |-> 0, tag |-> els[i].tag,
        nth |-> IF Cardinality(SameTag(els, i)) > 1
                THEN Cardinality(SameTagBefore(els, i)) ELSE 0]

(* the parts from the element up to the body or to the first ancestor with *)
(* an id, joined with " > "                                                *)
RECURSIVE getUniqueSelector(_, _)
getUniqueSelector(els, i) ==
  IF els[i].id # 0 \/ els[i].parent = 0 THEN <<SelectorPart(els, i)>>
  ELSE Append(getUniqueSelector(els, els[i].parent), SelectorPart(els, i))

PartMatches(els, part, i) ==
  IF part.id # 0 THEN els[i].id = part.id
  ELSE /\ els[i].tag = part.tag
       /\ (part.nth = 0 \/ Cardinality(SameTagBefore(els, i)) = part.nth)

(* the element matches the last part and its parents the parts before it   *)
RECURSIVE SelectorMatches(_, _, _)
SelectorMatches(els, sel, i) ==
  /\ PartMatches(els, sel[Len(sel)], i)
  /\ Len(sel) > 1 =>
       /\ els[i].parent # 0
       /\ SelectorMatches(els, SubSeq(sel, 1, Len(sel) - 1), els[i].parent)

(* document.querySelector(item.selector) in restoreNoise: the first match  *)
(* in document order                                                       *)
ResolveSelector(els, sel) ==
  LET hits == {i \in DOMAIN els : SelectorMatches(els, sel, i)}
  IN  IF hits = {} THEN NoElement
      ELSE CHOOSE i \in hits : \A j \in hits : i <= j

(* hideNoise: the backup, and the display of every element after it.  The  *)
(* field el of an entry is not sent: it remembers the element the entry    *)
(* was made for                                                            *)
hideNoiseBackup(els, disp) ==
  [k \in 1..Len(findNoisyChildren(els)) |->
     [selector |-> getUniqueSelector(els, findNoisyChildren(els)[k]),
      display |-> disp[findNoisyChildren(els)[k]],
      el |-> findNoisyChildren(els)[k]]]

hideNoiseDisplay(els, disp) ==
  [i \in DOMAIN disp |-> IF els[i].tag \in REMOVE_TAGS THEN "none" ELSE disp[i]]

(* restoreNoise: the entries are applied in order *)
RECURSIVE restoreNoiseDisplay(_, _, _, _)
restoreNoiseDisplay(els, disp, backup, k) ==
  IF k > Len(backup) THEN disp
  ELSE LET e == ResolveSelector(els, backup[k].selector)
       IN  restoreNoiseDisplay(
             els,
             IF e = NoElement THEN disp
             ELSE [disp EXCEPT ![e] = backup[k].display],
             backup, k + 1)

(* detectAndMeasure: hiddenElements, the live references {el, original} of *)
(* the noisy elements it hides while it measures                           *)
hiddenElements(els, disp) ==
  [k \in 1..Len(findNoisyChildren(els)) |->
     [el |-> findNoisyChildren(els)[k],
      original |-> disp[findNoisyChildren(els)[k]]]]

restoreHiddenMutSkip(disp, hidden, k) == disp

(* detectAndMeasure: el.style.display = original, for each of them *)
RECURSIVE restoreHidden(_, _, _)
restoreHidden(disp, hidden, k) ==
  IF k > Len(hidden) THEN disp
  ELSE restoreHidden([disp EXCEPT ![hidden[k].el] = hidden[k].original],
                     hidden, k + 1)

(* the value of noiseResult before the hide-noise message is answered *)
NoBackup == [answered |-> FALSE, backup |-> <<>>]

(* The content-script world of a tab: window.__articleCaptureInjected (or  *)
(* window.__articleCaptureListener of the direct build) and the number of  *)
(* chrome.runtime.onMessage listeners the scripts registered; then how     *)
(* often the script was injected, how many messages were sent to the tab,  *)
(* and for the last of them its type, the number of listeners that handled *)
(* it and the number of sendResponse calls                                 *)
NewTab ==
  [injected |-> FALSE, listeners |-> 0, injections |-> 0, sent |-> 0,
   message |-> "none", handled |-> 0, answered |-> 0]

contentScriptMutNoGuard(t) ==
  [t EXCEPT !.injected = TRUE, !.listeners = @ + 1]

(* content.js run in the tab: the guard, then addListener *)
contentScript(t) ==
  IF t.injected THEN t
  ELSE [t EXCEPT !.injected = TRUE, !.listeners = @ + 1]

(* the capture script of the direct build: removeListener of the previous  *)
(* listener, then addListener of the new one                               *)
directScript(t) ==
  [t EXCEPT !.injected = TRUE,
            !.listeners = (IF t.injected THEN @ - 1 ELSE @) + 1]

RECURSIVE restoreNoiseCount(_, _, _, _)
restoreNoiseCount(els, cnt, backup, k) ==
  IF k > Len(backup) THEN cnt
  ELSE LET e == ResolveSelector(els, backup[k].selector)
       IN  restoreNoiseCount(
             els,
             IF e = NoElement THEN cnt ELSE [cnt EXCEPT ![e] = @ + 1],
             backup, k + 1)

-----------------------------------------------------------------------------
(* Background service worker: src/background.js:113-420 ("hybrid") and     *)
(* src/unnamed/part_000 ("offscreen"); src/popup.js:91-238 ("direct")      *)

Variants == {"hybrid", "offscreen", "direct"}

(* captureScreen: the condition of the catch block that retries *)
ShouldRetryMutNoCap(v, attempt, outcome) ==
  IF v = "hybrid" THEN TRUE ELSE outcome = "rateLimit"

ShouldRetry(v, attempt, outcome) ==
  IF v = "hybrid" THEN attempt < Retries - 1
  ELSE attempt < Retries - 1 /\ outcome = "rateLimit"

(* captureScreen: the argument of sleep() before the next attempt *)
RetryDelayMutEscalating(v, attempt) ==
  IF v = "hybrid" THEN 2000 * (attempt + 1) ELSE 1500 * (attempt + 1)

RetryDelay(v, attempt) == IF v = "hybrid" THEN 2000 ELSE 1500

(* captureArticle: the percent values passed to notifyProgress *)
FirstProgress(v) == IF v = "hybrid" THEN 10 ELSE 15

TotalStepsMutFloor(height, vh) == Max(1, height \div vh)

(* Math.ceil(articleHeight / viewportHeight); a division by 0 is Infinity *)
Infinity == 1000000

TotalSteps(height, vh) == IF vh = 0 THEN Infinity ELSE CeilDiv(height, vh)

(* Math.floor((step / total) * 50); step / Infinity is 0 *)
StepShare(step, total) == IF total = Infinity THEN 0 ELSE (step * 50) \div total

LoopProgress(v, step, total) ==
  IF v = "hybrid" THEN 20 + StepShare(step, total)
  ELSE Min(30 + StepShare(step, total), 80)

ProcessProgress(v) == IF v = "hybrid" THEN 75 ELSE 85

(* captureArticle: the crop of one capture and the segment pushed for it *)
CropTop(inf, actualY) == Max(0, inf.top - actualY)
CropBottom(inf, actualY) ==
  Min(inf.viewportHeight, inf.top + inf.height - actualY)

SegmentOf(inf, actualY) ==
  [sx |-> FloorDpr(inf.left, inf.dpr2),
   sy |-> FloorDpr(CropTop(inf, actualY), inf.dpr2),
   sw |-> CeilDpr(inf.width, inf.dpr2),
   sh |-> CeilDpr(CropBottom(inf, actualY) - CropTop(inf, actualY), inf.dpr2),
   dy |-> FloorDpr(actualY + CropTop(inf, actualY) - inf.top, inf.dpr2)]

RecordsMutAlways(v, inf, actualY) == TRUE

(* the hybrid build pushes only when cropBottom > cropTop; the offscreen   *)
(* build pushes a region for every step                                    *)
Records(v, inf, actualY) ==
  v = "offscreen" \/ CropBottom(inf, actualY) > CropTop(inf, actualY)

-----------------------------------------------------------------------------
(* State *)

Reqs == {1, 2}

InitReq ==
  [pc |-> "idle",        \* where captureArticle is suspended
   info |-> NoInfo,      \* the detection result
   backup |-> <<>>,      \* noiseResult.backup
   hiddenBackup |-> <<>>, \* hiddenBackup of the direct build's content script
   ensure |-> "none",    \* where the request's call of ensureOffscreen is
   creates |-> 0,        \* calls of chrome.offscreen.createDocument
   origScroll |-> NoY,   \* originalScrollY
   currentY |-> 0,
   step |-> 0,
   totalSteps |-> 0,
   attempt |-> 0,        \* captureScreen's loop variable
   actualY |-> NoY,      \* actualScrollY of the current step
   raster |-> "none",    \* what the last captureScreen call returned
   segs |-> <<>>,        \* captures / captureRegions
   \* history of the request, read by the properties only
   calls |-> 0,          \* primitive invocations in the current captureScreen call
   rls |-> 0,            \* ... of which failed with a rate-limit signal
   others |-> 0,         \* ... of which failed otherwise
   waits |-> <<>>,       \* sleep() delays of the current captureScreen call
   progress |-> <<>>,    \* percent values passed to notifyProgress
   responses |-> <<>>,   \* sendResponse calls
   failedAt |-> "none",  \* the step that threw
   scroll0 |-> NoY,      \* window.scrollY when the request started
   exact |-> TRUE,       \* every scroll-to so far landed on the requested offset
   retried2 |-> FALSE,   \* some step succeeded after exactly two rate-limit signals
   nScroll |-> 0,        \* scroll-to messages issued
   swallowed |-> 0,      \* failures that were caught and not passed on
   downloads |-> 0]      \* chrome.downloads.download invocations

Notify(q, percent) == [q EXCEPT !.progress = Append(@, percent)]

(* a rejected await: the .catch of the listener responds with the error *)
Throw(q, where) ==
  [q EXCEPT !.pc = "error", !.failedAt = where,
            !.responses = Append(@, "failure")]

InFlight(q) == q.pc \notin {"idle", "done", "error"}

(* Documents of the model *)
RectTops == {16, 21}
RectHeights == {8, 31, 68}
InnerHeights == {21, 40, 50}
Slacks == {0, 50}
Dpr2s == {2, 3, 4}
InitialScrolls == {0, 7}

Geometry(rt, rh, ih, slack, d) ==
  [rectTop |-> rt, rectHeight |-> rh, rectLeft |-> 20, rectWidth |-> 60,
   innerWidth |-> 120, innerHeight |-> ih,
   scrollHeight |-> Max(0, rt - Padding) + rh + 2 * Padding + slack,
   dpr2 |-> d]

ScenarioA == Geometry(16, 4968, 1000, 1000, 2)

(* documents that end where the element ends: the padding below the       *)
(* element reaches past the end of the document                            *)
EndPages == {Geometry(16, rh, 21, 0 - Padding, d) : rh \in {31, 68}, d \in Dpr2s}

(* documents whose element is as wide as the viewport, like the body *)
FullWidthPages ==
  {[Geometry(16, 8, 50, 50, d) EXCEPT !.rectLeft = 0, !.rectWidth = 120] :
     d \in {2, 3}}

Pages ==
  {Geometry(rt, rh, ih, sl, d) :
     rt \in RectTops, rh \in RectHeights, ih \in InnerHeights,
     sl \in Slacks, d \in Dpr2s}
  \cup {ScenarioA}
  \cup EndPages
  \cup FullWidthPages

SmallPage == Geometry(21, 8, 21, 50, 2)

NoiseIds == 0..NumNoise
NoiseDocs ==
  {els \in [1..NumNoise -> [tag : {"ASIDE"}, id : NoiseIds, parent : {0}]] :
     \A i \in 1..NumNoise : els[i].id \in {0, i}}
Displays == [1..NumNoise -> {"", "block"}]
PlainNoise == [i \in 1..NumNoise |-> [tag |-> "ASIDE", id |-> 0, parent |-> 0]]
ShownNoise == [i \in 1..NumNoise |-> ""]

(* no stitch / export job has been started *)
NoJob ==
  [pc |-> "none", fn |-> "none", format |-> "none",
   finalWidth |-> 0, finalHeight |-> 0, dpr2 |-> 0, captures |-> <<>>,
   bad |-> [at |-> 0, how |-> "ok"],
   outW |-> 0, outH |-> 0, next |-> 1, dest |-> <<>>, failed |-> 0,
   totalPages |-> 0, pages |-> <<>>, result |-> "none"]

EmptyDoc == [els |-> <<>>, hasBody |-> TRUE]
NotDetected == [el |-> NoElement, resp |-> "unset", hiddenCount |-> 0]

InitCommon ==
  /\ variant \in Variants
  /\ page \in (IF variant = "direct" THEN {SmallPage} ELSE Pages)
  /\ scrollY \in {y \in InitialScrolls : y <= MaxScroll(page)}
  /\ noise \in (IF variant = "hybrid" THEN {PlainNoise} ELSE NoiseDocs)
  /\ display \in (IF variant = "hybrid" THEN {ShownNoise} ELSE Displays)
  /\ restores = [i \in 1..NumNoise |-> 0]
  /\ req = [r \in Reqs |-> InitReq]
  /\ offscreenReady = FALSE
  /\ offscreenDocs = 0
  /\ doc = EmptyDoc
  /\ detected = NotDetected
  /\ job = NoJob
  /\ scored = <<>>
  /\ noiseBackup = NoBackup
  /\ tab = NewTab

Init == InitCommon /\ reqs = {1}

-----------------------------------------------------------------------------
(* Actions.  Every await of captureArticle is one action: the message round *)
(* trip (or API call) and the synchronous code up to the next await.  Each  *)
(* round trip may also fail (the tab is closed, the call is rejected).      *)

(* onMessage listener (start-capture): captureArticle up to its first await *)
StartCapture(r) ==
  /\ r \in reqs
  /\ req[r].pc = "idle"
  /\ req' = [req EXCEPT ![r] =
       [Notify(@, FirstProgress(variant)) EXCEPT
          !.pc = IF variant = "offscreen" THEN "detect" ELSE "inject",
          !.scroll0 = scrollY]]
  /\ UNCHANGED <<variant, page, scrollY, noise, display, restores, reqs,
                 offscreenReady, offscreenDocs, doc, detected, job, scored,
                 noiseBackup, tab>>

(* chrome.scripting.executeScript of the hybrid and the direct build *)
Inject(r) ==
  /\ req[r].pc = "inject"
  /\ \/ /\ req' = [req EXCEPT ![r] =
             IF variant = "hybrid" THEN [@ EXCEPT !.pc = "detect"]
             ELSE [Notify(@, 40) EXCEPT !.pc = "render"]]
        /\ tab' = IF variant = "hybrid" THEN contentScript(tab)
                  ELSE directScript(tab)
     \/ /\ req' = [req EXCEPT ![r] = Throw(@, "inject")]
        /\ tab' = tab
  /\ UNCHANGED <<variant, page, scrollY, noise, display, restores, reqs,
                 offscreenReady, offscreenDocs, doc, detected, job, scored,
                 noiseBackup>>

(* the detect-article round trip *)
Detect(r) ==
  /\ req[r].pc = "detect"
  /\ \/ LET inf == detectAndMeasure(page)
            q == [Notify(req[r], 20) EXCEPT !.info = inf]
        IN  req' = [req EXCEPT ![r] =
              IF variant = "offscreen" THEN [q EXCEPT !.pc = "hide"]
              ELSE [q EXCEPT !.pc = "loop",
                             !.origScroll = inf.scrollY,
                             !.currentY = inf.top,
                             !.totalSteps =
                                TotalSteps(inf.height, inf.viewportHeight)]]
     \/ req' = [req EXCEPT ![r] = Throw(@, "detect")]
  /\ UNCHANGED <<variant, page, scrollY, noise, display, restores, reqs,
                 offscreenReady, offscreenDocs, doc, detected, job, scored,
                 noiseBackup, tab>>

(* the hide-noise round trip (offscreen build) *)
HideNoise(r) ==
  /\ req[r].pc = "hide"
  /\ \/ /\ req' = [req EXCEPT ![r] =
             [@ EXCEPT !.pc = "getscroll",
                       !.backup = hideNoiseBackup(noise, display)]]
        /\ display' = hideNoiseDisplay(noise, display)
     \/ /\ req' = [req EXCEPT ![r] = Throw(@, "hide")]
        /\ UNCHANGED display
  /\ UNCHANGED <<variant, page, scrollY, noise, restores, reqs,
                 offscreenReady, offscreenDocs, doc, detected, job, scored,
                 noiseBackup, tab>>

(* the first get-scroll-info round trip (offscreen build) *)
GetScroll(r) ==
  /\ req[r].pc = "getscroll"
  /\ \/ LET inf == req[r].info
        IN  req' = [req EXCEPT ![r] =
              [Notify(@, 30) EXCEPT
                 !.pc = "loop",
                 !.origScroll = scrollY,
                 !.currentY = inf.top,
                 !.totalSteps = TotalSteps(inf.height, inf.viewportHeight)]]
     \/ req' = [req EXCEPT ![r] = Throw(@, "getscroll")]
  /\ UNCHANGED <<variant, page, scrollY, noise, display, restores, reqs,
                 offscreenReady, offscreenDocs, doc, detected, job, scored,
                 noiseBackup, tab>>

LoopRuns(q) == q.pc = "loop" /\ q.currentY < q.info.top + q.info.height
LoopOver(q) == q.pc = "loop" /\ ~(q.currentY < q.info.top + q.info.height)

(* the head of the while loop and the scroll-to round trip; the settle     *)
(* sleep that follows is not a backoff wait and is left out.  The history  *)
(* of the request (step, nScroll, progress, segs) counts the first         *)
(* MaxSteps turns; the loop itself runs as long as its condition holds     *)
ScrollStep(r) ==
  /\ LoopRuns(req[r])
  /\ LET q == IF req[r].step < MaxSteps
              THEN [Notify(req[r],
                      LoopProgress(variant, req[r].step + 1, req[r].totalSteps))
                    EXCEPT !.step = @ + 1, !.nScroll = @ + 1]
              ELSE req[r]
         y == scrollToPosition(page, scrollY, req[r].currentY)
     IN  \/ /\ scrollY' = y
            /\ req' = [req EXCEPT ![r] =
                 [q EXCEPT !.pc = "capture",
                           !.actualY = IF variant = "hybrid" THEN y ELSE NoY,
                           !.attempt = 0, !.calls = 0, !.rls = 0,
                           !.others = 0, !.waits = <<>>, !.raster = "none"]]
         \/ /\ req' = [req EXCEPT ![r] = Throw(q, "scroll")]
            /\ UNCHANGED scrollY
  /\ UNCHANGED <<variant, page, noise, display, restores, reqs,
                 offscreenReady, offscreenDocs, doc, detected, job, scored,
                 noiseBackup, tab>>

(* the lines after "const dataUrl = await captureScreen()" *)
PushSegment(q, actualY) ==
  [q EXCEPT
     !.pc = "loop",
     !.actualY = actualY,
     !.exact = @ /\ actualY = q.currentY,
     !.segs = IF Records(variant, q.info, actualY) /\ Len(@) < MaxSteps
              THEN Append(@, SegmentOf(q.info, actualY)) ELSE @,
     !.currentY = @ + q.info.viewportHeight]

AfterCapture(q) ==
  IF variant = "hybrid" THEN PushSegment(q, q.actualY)
  ELSE [q EXCEPT !.pc = "measure"]

(* one invocation of captureVisibleTab that resolves *)
CaptureOk(r) ==
  /\ req[r].pc = "capture"
  /\ req' = [req EXCEPT ![r] =
       AfterCapture([@ EXCEPT !.calls = @ + 1,
                              !.raster = "img",
                              !.retried2 = @ \/ req[r].rls = 2])]
  /\ UNCHANGED <<variant, page, scrollY, noise, display, restores, reqs,
                 offscreenReady, offscreenDocs, doc, detected, job, scored,
                 noiseBackup, tab>>

(* CaptureFail with the capture recorded inside the retry loop: every     *)
(* retried attempt pushes a segment of its own                             *)
CaptureFailMutPush(r) ==
  /\ req[r].pc = "capture"
  /\ \E outcome \in {"rateLimit", "other"} :
       LET q == [req[r] EXCEPT
                   !.calls = @ + 1,
                   !.rls = IF outcome = "rateLimit" THEN @ + 1 ELSE @,
                   !.others = IF outcome = "other" THEN @ + 1 ELSE @]
       IN  req' = [req EXCEPT ![r] =
             IF ShouldRetry(variant, q.attempt, outcome)
             THEN [q EXCEPT
                     !.waits = Append(@, RetryDelay(variant, q.attempt)),
                     !.attempt = @ + 1,
                     !.segs = Append(@, SegmentOf(q.info, q.currentY))]
             ELSE Throw(q, "capture")]
  /\ UNCHANGED <<variant, page, scrollY, noise, display, restores, reqs,
                 offscreenReady, offscreenDocs, doc, detected, job, scored,
                 noiseBackup, tab>>

(* one invocation that rejects: the catch block of captureScreen.  When    *)
(* the for loop runs out without throwing, captureScreen returns undefined *)
CaptureFail(r) ==
  /\ req[r].pc = "capture"
  /\ \E outcome \in {"rateLimit", "other"} :
       LET q == [req[r] EXCEPT
                   !.calls = @ + 1,
                   !.rls = IF outcome = "rateLimit" THEN @ + 1 ELSE @,
                   !.others = IF outcome = "other" THEN @ + 1 ELSE @]
       IN  req' = [req EXCEPT ![r] =
             IF ShouldRetry(variant, q.attempt, outcome)
             THEN LET w == [q EXCEPT
                              !.waits = Append(@, RetryDelay(variant, q.attempt)),
                              !.attempt = @ + 1]
                  IN  IF w.attempt < Retries THEN w
                      ELSE AfterCapture([w EXCEPT !.raster = "undefined"])
             ELSE Throw(q, "capture")]
  /\ UNCHANGED <<variant, page, scrollY, noise, display, restores, reqs,
                 offscreenReady, offscreenDocs, doc, detected, job, scored,
                 noiseBackup, tab>>

(* the get-scroll-info round trip after the capture (offscreen build) *)
Measure(r) ==
  /\ req[r].pc = "measure"
  /\ \/ req' = [req EXCEPT ![r] = PushSegment(@, scrollY)]
     \/ req' = [req EXCEPT ![r] = Throw(@, "measure")]
  /\ UNCHANGED <<variant, page, scrollY, noise, display, restores, reqs,
                 offscreenReady, offscreenDocs, doc, detected, job, scored,
                 noiseBackup, tab>>

(* the restore-noise round trip after the loop (offscreen build) *)
RestoreNoise(r) ==
  /\ variant = "offscreen"
  /\ LoopOver(req[r])
  /\ \/ /\ req' = [req EXCEPT ![r].pc = "restoreScroll"]
        /\ display' = restoreNoiseDisplay(noise, display, req[r].backup, 1)
        /\ restores' = restoreNoiseCount(noise, restores, req[r].backup, 1)
     \/ /\ req' = [req EXCEPT ![r] = Throw(@, "restoreNoise")]
        /\ UNCHANGED <<display, restores>>
  /\ UNCHANGED <<variant, page, scrollY, noise, reqs,
                 offscreenReady, offscreenDocs, doc, detected, job, scored,
                 noiseBackup, tab>>

(* the scroll-to(originalScrollY) round trip after the loop *)
RestoreScroll(r) ==
  /\ \/ variant = "hybrid" /\ LoopOver(req[r])
     \/ req[r].pc = "restoreScroll"
  /\ \/ /\ scrollY' = scrollToPosition(page, scrollY, req[r].origScroll)
        /\ req' = [req EXCEPT ![r] =
             [Notify(@, ProcessProgress(variant)) EXCEPT
                !.pc = "stitch", !.nScroll = @ + 1]]
     \/ /\ req' = [req EXCEPT ![r] =
             Throw([@ EXCEPT !.nScroll = @ + 1], "restoreScroll")]
        /\ UNCHANGED scrollY
  /\ UNCHANGED <<variant, page, noise, display, restores, reqs,
                 offscreenReady, offscreenDocs, doc, detected, job, scored,
                 noiseBackup, tab>>

(* the request stands before its call of ensureOffscreen, or inside it *)
NeedsOffscreen(q) ==
  \/ variant = "offscreen" /\ q.pc = "stitch"
  \/ q.pc = "convert"

(* ensureOffscreen, its synchronous start: the flag is read, and when it   *)
(* is not set getContexts is called                                        *)
EnsureOffscreen(r) ==
  /\ NeedsOffscreen(req[r])
  /\ req[r].ensure = "none"
  /\ req' = [req EXCEPT ![r].ensure =
       IF offscreenReady THEN "done" ELSE "getContexts"]
  /\ UNCHANGED <<variant, page, scrollY, noise, display, restores, reqs,
                 offscreenReady, offscreenDocs, doc, detected, job, scored,
                 noiseBackup, tab>>

(* getContexts settles.  With no context createDocument is called; with    *)
(* one the flag is set; a rejection is caught and the flag is set          *)
EnsureGetContexts(r) ==
  /\ req[r].ensure = "getContexts"
  /\ \/ /\ offscreenDocs = 0
        /\ req' = [req EXCEPT ![r] =
             [@ EXCEPT !.ensure = "createDocument", !.creates = @ + 1]]
        /\ UNCHANGED offscreenReady
     \/ /\ offscreenDocs > 0
        /\ req' = [req EXCEPT ![r].ensure = "done"]
        /\ offscreenReady' = TRUE
     \/ /\ req' = [req EXCEPT ![r].ensure = "done"]
        /\ offscreenReady' = TRUE
  /\ UNCHANGED <<variant, page, scrollY, noise, display, restores, reqs,
                 offscreenDocs, doc, detected, job, scored, noiseBackup, tab>>

(* createDocument settles: the document exists now, or the call is         *)
(* rejected (a document exists already, or the document cannot be made);   *)
(* the flag is set either way                                              *)
EnsureCreateDocument(r) ==
  /\ req[r].ensure = "createDocument"
  /\ req' = [req EXCEPT ![r].ensure = "done"]
  /\ offscreenReady' = TRUE
  /\ \/ offscreenDocs = 0 /\ offscreenDocs' = 1
     \/ UNCHANGED offscreenDocs
  /\ UNCHANGED <<variant, page, scrollY, noise, display, restores, reqs,
                 doc, detected, job, scored, noiseBackup, tab>>

(* Stitch with the check of result.error left out: an error result goes   *)
(* on to the download                                                      *)
StitchMutIgnoresError(r) ==
  /\ req[r].pc = "stitch"
  /\ variant = "offscreen" => req[r].ensure = "done"
  /\ \/ req' = [req EXCEPT ![r] = [Notify(@, 95) EXCEPT !.pc = "download"]]
     \/ req' = [req EXCEPT ![r] =
          [Notify(@, 95) EXCEPT !.pc = "download", !.failedAt = "stitch"]]
  /\ UNCHANGED <<variant, page, scrollY, noise, display, restores, reqs,
                 offscreenReady, offscreenDocs, doc, detected, job, scored,
                 noiseBackup, tab>>

(* combineAndExport in the page (hybrid) or combine-images in the          *)
(* offscreen document (offscreen build), and the check of its result.      *)
(* The stitcher answers with a data URL, or with an error (also when the   *)
(* message cannot be delivered), or, in combineImages, with a data URL     *)
(* after a drawImage failure that it caught and logged                     *)
Stitch(r) ==
  /\ req[r].pc = "stitch"
  /\ variant = "offscreen" => req[r].ensure = "done"
  /\ \/ /\ variant = "offscreen" => offscreenDocs > 0
        /\ req' = [req EXCEPT ![r] = [Notify(@, 95) EXCEPT !.pc = "download"]]
     \/ req' = [req EXCEPT ![r] = Throw(@, "stitch")]
     \/ /\ variant = "offscreen"
        /\ offscreenDocs > 0
        /\ Len(req[r].segs) > 0
        /\ req' = [req EXCEPT ![r] =
             [Notify(@, 95) EXCEPT !.pc = "download", !.swallowed = @ + 1]]
  /\ UNCHANGED <<variant, page, scrollY, noise, display, restores, reqs,
                 offscreenReady, offscreenDocs, doc, detected, job, scored,
                 noiseBackup, tab>>

(* whether the finally block of the content script's captureArticle runs  *)
(* for an outcome of the try block: it always does                         *)
FinallyRestoresMutNotOnThrow(outcome) == outcome # "exception"

FinallyRestores(outcome) == TRUE

(* how often restoreHidden assigns each element *)
restoreHiddenCount(cnt, hidden) ==
  [i \in DOMAIN cnt |->
     cnt[i] + Cardinality({k \in DOMAIN hidden : hidden[k].el = i})]

(* the outcomes of the try block: a data URL, a raster that still needs    *)
(* the PDF conversion, the return for a missing jsPDF, and an exception    *)
(* of html2canvas or of the PDF generation                                 *)
RenderOutcomes == {"success", "needsPdf", "jspdf", "exception"}

(* the capture-article round trip of the direct build, up to the await of  *)
(* html2canvas: the content script hides the noisy elements and keeps      *)
(* their displays in hiddenBackup; without a detector or an article it     *)
(* returns an error before it hides anything                               *)
RenderStart(r) ==
  /\ req[r].pc = "render"
  /\ \/ /\ req' = [req EXCEPT ![r] =
             [@ EXCEPT !.pc = "rendering",
                       !.hiddenBackup = hiddenElements(noise, display)]]
        /\ display' = hideNoiseDisplay(noise, display)
     \/ /\ req' = [req EXCEPT ![r] = Throw(@, "render")]
        /\ UNCHANGED display
  /\ UNCHANGED <<variant, page, scrollY, noise, restores, reqs,
                 offscreenReady, offscreenDocs, doc, detected, job, scored,
                 noiseBackup, tab>>

(* the rest of it: the try block ends in one of its outcomes, the finally  *)
(* block restores the displays, and the orchestrator reads the response    *)
RenderEnd(r) ==
  /\ req[r].pc = "rendering"
  /\ \E outcome \in RenderOutcomes :
       /\ req' = [req EXCEPT ![r] =
            IF outcome = "success"
            THEN [Notify(Notify(@, 70), 95) EXCEPT !.pc = "download"]
            ELSE IF outcome = "needsPdf"
            THEN [Notify(@, 70) EXCEPT !.pc = "convert"]
            ELSE Throw(@, outcome)]
       /\ IF FinallyRestores(outcome)
          THEN /\ display' = restoreHidden(display, req[r].hiddenBackup, 1)
               /\ restores' = restoreHiddenCount(restores, req[r].hiddenBackup)
          ELSE UNCHANGED <<display, restores>>
  /\ UNCHANGED <<variant, page, scrollY, noise, reqs, offscreenReady,
                 offscreenDocs, doc, detected, job, scored, noiseBackup, tab>>

(* result.needsPdf: ensureOffscreen and the convert-to-pdf round trip *)
Convert(r) ==
  /\ req[r].pc = "convert"
  /\ req[r].ensure = "done"
  /\ \/ /\ offscreenDocs > 0
        /\ req' = [req EXCEPT ![r] =
             [Notify(Notify(@, 80), 95) EXCEPT !.pc = "download"]]
     \/ req' = [req EXCEPT ![r] = Throw(Notify(@, 80), "convert")]
  /\ UNCHANGED <<variant, page, scrollY, noise, display, restores, reqs,
                 offscreenReady, offscreenDocs, doc, detected, job, scored,
                 noiseBackup, tab>>

(* chrome.downloads.download and the return of captureArticle *)
Download(r) ==
  /\ req[r].pc = "download"
  /\ \/ req' = [req EXCEPT ![r] =
          [@ EXCEPT !.pc = "done", !.downloads = @ + 1,
                    !.responses = Append(@, "success")]]
     \/ req' = [req EXCEPT ![r] =
          Throw([@ EXCEPT !.downloads = @ + 1], "download")]
  /\ UNCHANGED <<variant, page, scrollY, noise, display, restores, reqs,
                 offscreenReady, offscreenDocs, doc, detected, job, scored,
                 noiseBackup, tab>>

Next ==
  \E r \in Reqs :
    \/ StartCapture(r)
    \/ Inject(r)
    \/ Detect(r)
    \/ HideNoise(r)
    \/ GetScroll(r)
    \/ ScrollStep(r)
    \/ CaptureOk(r)
    \/ CaptureFail(r)
    \/ Measure(r)
    \/ RestoreNoise(r)
    \/ RestoreScroll(r)
    \/ Stitch(r)
    \/ EnsureOffscreen(r)
    \/ EnsureGetContexts(r)
    \/ EnsureCreateDocument(r)
    \/ RenderStart(r)
    \/ RenderEnd(r)
    \/ Convert(r)
    \/ Download(r)

Spec == Init /\ [][Next]_vars

-----------------------------------------------------------------------------
(* Two popup sessions: the popup is closed while a capture runs and opened *)
(* again (a fresh popup document, its button enabled), so a second         *)
(* start-capture reaches the listener while the first is in flight.        *)

ConcPage == Geometry(21, 8, 50, 50, 2)

InitConc ==
  /\ variant \in Variants
  /\ page = ConcPage
  /\ scrollY = 0
  /\ noise = PlainNoise
  /\ display \in Displays
  /\ restores = [i \in 1..NumNoise |-> 0]
  /\ req = [r \in Reqs |-> InitReq]
  /\ offscreenReady = FALSE
  /\ offscreenDocs = 0
  /\ doc = EmptyDoc
  /\ detected = NotDetected
  /\ job = NoJob
  /\ scored = <<>>
  /\ noiseBackup = NoBackup
  /\ tab = NewTab
  /\ reqs = Reqs

SpecConc == InitConc /\ [][Next]_vars

-----------------------------------------------------------------------------
(* The detector on its own: the documents the detect-article handler can   *)
(* be asked about, and the handler applied to each                         *)

ElementPool ==
  [tag : {"DIV", "ARTICLE", "P"},
   textLen : {40, 1200},
   cls : {"", "sidebar", "post-content"},
   underExcluded : BOOLEAN,
   hidden : {FALSE},
   role : {""}, itemprop : {""},
   pCount : {0}, imgCount : {0}, linkLen : {0},
   inArticle : {FALSE}, inRoleArticle : {FALSE}]

Docs ==
  {[els |-> e, hasBody |-> b] :
     e \in UNION {[1..n -> ElementPool] : n \in 0..MaxCandidates},
     b \in BOOLEAN}

InitDetect ==
  /\ variant = "hybrid"
  /\ page = SmallPage
  /\ scrollY = 0
  /\ noise = PlainNoise
  /\ display \in Displays
  /\ restores = [i \in 1..NumNoise |-> 0]
  /\ req = [r \in Reqs |-> InitReq]
  /\ offscreenReady = FALSE
  /\ offscreenDocs = 0
  /\ reqs = {}
  /\ doc \in Docs
  /\ detected = NotDetected
  /\ job = NoJob
  /\ scored = <<>>
  /\ noiseBackup = NoBackup
  /\ tab = NewTab

(* onMessage listener (detect-article): detectAndMeasure.  Without an      *)
(* article it returns the error before it hides anything; with one it      *)
(* hides the noisy elements, measures, and assigns the originals back      *)
DetectArticleMessage ==
  /\ detected.resp = "unset"
  /\ LET article == detectArticle(doc.els, doc.hasBody)
         hidden == IF article = NoElement THEN <<>>
                   ELSE hiddenElements(noise, display)
     IN  /\ detected' = [el |-> article,
                         resp |-> DetectResponse(doc.els, doc.hasBody),
                         hiddenCount |-> Len(hidden)]
         /\ display' = IF article = NoElement THEN display
                       ELSE restoreHidden(hideNoiseDisplay(noise, display),
                                          hidden, 1)
  /\ UNCHANGED <<variant, page, scrollY, noise, restores, reqs, req,
                 offscreenReady, offscreenDocs, doc, job, scored, noiseBackup,
                 tab>>

NextDetect == DetectArticleMessage

SpecDetect == InitDetect /\ [][NextDetect]_vars

-----------------------------------------------------------------------------
(* Properties *)

Stitching == variant \in {"hybrid", "offscreen"}

(* the capture loop of request r has run to its end *)
LoopFinished(q) ==
  \/ LoopOver(q)
  \/ q.pc \in {"restoreScroll", "stitch", "download", "done"}

(* destination window [dy, dy + sh) of a segment, as a set of pixel rows *)
DestRows(seg) == seg.dy .. (seg.dy + seg.sh - 1)

PairwiseDisjoint(segs) ==
  \A i, j \in DOMAIN segs : i # j => DestRows(segs[i]) \cap DestRows(segs[j]) = {}

Covered(segs) == UNION {DestRows(segs[i]) : i \in DOMAIN segs}

(* the pixel rows of [0, regionHeight * density) *)
RegionRows(inf) == {y \in 0..(inf.height * inf.dpr2) : 2 * y < inf.height * inf.dpr2}

DestYs(segs) == [i \in DOMAIN segs |-> segs[i].dy]

(* C1: when every scroll-to lands on the requested offset, the destination *)
(* windows of the recorded segments are pairwise disjoint and their union  *)
(* is exactly [0, regionHeight * density); region height 5000, viewport    *)
(* height 1000, density 1 gives 5 segments with dy 0, 1000, ..., 4000.     *)
C1_SegmentsTile ==
  \A r \in Reqs :
    (Stitching /\ LoopFinished(req[r]) /\ req[r].exact) =>
      /\ PairwiseDisjoint(req[r].segs)
      /\ Covered(req[r].segs) = RegionRows(req[r].info)
      /\ (page = ScenarioA =>
            DestYs(req[r].segs) = <<0, 1000, 2000, 3000, 4000>>)

(* The same statement for the integer pixel densities only (dpr 1 and 2),  *)
(* where Math.floor and Math.ceil round nothing.                           *)
SegmentsTileIntegerDensity ==
  \A r \in Reqs :
    (Stitching /\ LoopFinished(req[r]) /\ req[r].exact /\ page.dpr2 \in {2, 4}) =>
      /\ PairwiseDisjoint(req[r].segs)
      /\ Covered(req[r].segs) = RegionRows(req[r].info)
      /\ (page = ScenarioA =>
            DestYs(req[r].segs) = <<0, 1000, 2000, 3000, 4000>>)

(* C2: every noise element hidden by hide-noise has its original display   *)
(* restored exactly once on every exit path of captureArticle.             *)
C2_NoiseRestoredOnEveryExit ==
  \A r \in Reqs :
    (\/ req[r].pc = "done"
     \/ req[r].pc = "error" /\ req[r].failedAt \in {"scroll", "capture", "measure"}) =>
      \A i \in DOMAIN req[r].backup :
        restores[i] = 1 /\ display[i] = req[r].backup[i].display

(* C3: when the capture primitive fails on the last retry attempt, the     *)
(* scroll position is back at its pre-capture value when the error is      *)
(* reported.                                                               *)
C3_ScrollRestoredOnCaptureFailure ==
  \A r \in Reqs :
    (req[r].pc = "error" /\ req[r].failedAt = "capture"
       /\ req[r].calls = Retries) =>
      scrollY = req[r].scroll0

(* C4: a failure that is not a rate-limit signal is not retried: the       *)
(* primitive is not invoked again in that step, no wait follows it and the *)
(* error propagates.                                                       *)
C4_RetryOnlyOnRateLimit ==
  \A r \in Reqs :
    req[r].others > 0 =>
      /\ req[r].pc = "error"
      /\ req[r].failedAt = "capture"
      /\ req[r].calls = req[r].rls + 1
      /\ Len(req[r].waits) = req[r].rls

(* C5: one call of captureScreen invokes the primitive at most Retries     *)
(* times and then either returns a raster or throws; when all attempts     *)
(* signal rate-limit it throws, and a request in the error state issues no *)
(* further scroll or capture step.                                         *)
C5_BoundedRetries ==
  /\ [](\A r \in Reqs :
          /\ req[r].calls <= Retries
          /\ req[r].raster # "undefined"
          /\ (req[r].calls = Retries /\ req[r].raster # "img" =>
                req[r].pc = "error" /\ req[r].failedAt = "capture")
          /\ (req[r].rls = Retries => req[r].pc = "error"))
  /\ [][\A r \in Reqs :
          req[r].pc = "error" =>
            /\ req'[r].pc = "error"
            /\ req'[r].nScroll = req[r].nScroll
            /\ req'[r].calls = req[r].calls
            /\ req'[r].step = req[r].step]_vars

C5_Witness ==
  \E r \in Reqs :
    req[r].rls = Retries /\ req[r].pc = "error" /\ req[r].step = 2

(* the segments of a run in which the primitive never fails: step k        *)
(* scrolls to top + (k-1) * viewportHeight and records what it sees there  *)
RequestedY(inf, k) == inf.top + (k - 1) * inf.viewportHeight

NoFailureSegments(inf) ==
  [k \in 1..CeilDiv(inf.height, inf.viewportHeight) |->
     SegmentOf(inf, scrollToPosition(page, 0, RequestedY(inf, k)))]

(* C6: a step in which the primitive signals rate-limit twice and then     *)
(* succeeds goes on (exactly two backoff waits, three invocations), and    *)
(* the completed pipeline has recorded the segments of a failure-free run. *)
C6_RetryIsTransparent ==
  /\ [][\A r \in Reqs :
          (/\ req[r].pc = "capture" /\ req[r].rls = 2 /\ req[r].others = 0
           /\ req'[r].rls = 2 /\ req'[r].raster = "img") =>
            /\ req'[r].pc \in {"measure", "loop"}
            /\ Len(req'[r].waits) = 2
            /\ req'[r].calls = 3]_vars
  /\ [](\A r \in Reqs :
          (req[r].retried2 /\ req[r].pc = "done") =>
            req[r].segs = NoFailureSegments(req[r].info))

C6_Witness ==
  \E r \in Reqs :
    /\ req[r].retried2 /\ req[r].pc = "done"
    /\ Len(req[r].segs) = 3
    /\ req[r].rls = 2 /\ req[r].raster = "img"

C8_OneCaptureInFlight ==
  Cardinality({r \in Reqs : InFlight(req[r])}) <= 1

(* C9: within one request the percent values passed to notifyProgress are  *)
(* non-decreasing and lie in 0..100.                                       *)
C9_ProgressMonotone ==
  \A r \in Reqs :
    \A k \in DOMAIN req[r].progress :
      /\ req[r].progress[k] \in 0..100
      /\ (k > 1 => req[r].progress[k - 1] <= req[r].progress[k])

C9_Witness ==
  \E r \in Reqs :
    /\ req[r].pc = "done"
    /\ req[r].step = 5
    /\ Len(req[r].progress) = 9

(* C10: for a document with a body, detectArticle returns an element: the  *)
(* semantic match, the best-scoring candidate or the body; the handler     *)
(* does not answer "not found".                                            *)
BestCandidates(d) ==
  {i \in DOMAIN d :
     /\ IsCandidate(d[i])
     /\ \A j \in DOMAIN d : IsCandidate(d[j]) => scoreElement(d[j]) <= scoreElement(d[i])}

C10_DetectNeverEmpty ==
  (detected.resp # "unset" /\ doc.hasBody) =>
    /\ detected.resp = "info"
    /\ detected.el # NoElement
    /\ \/ detected.el = Body
       \/ /\ detected.el \in DOMAIN doc.els
          /\ \/ \E k \in 1..NumSelectors : querySelector(doc.els, k) = detected.el
             \/ detected.el \in BestCandidates(doc.els)

(* a document whose only candidates are all excluded: the body is returned *)
C10_Witness ==
  /\ doc.hasBody
  /\ Len(doc.els) = 2
  /\ \A i \in DOMAIN doc.els :
       doc.els[i].tag = "DIV" /\ doc.els[i].underExcluded
  /\ detected.resp = "info"
  /\ detected.el = Body

-----------------------------------------------------------------------------
(* Stitching and export: combineAndExport (src/background.js:306-410, run  *)
(* in the page by the hybrid build), combineImages and generatePDF         *)
(* (src/offscreen.js:23-128, the offscreen build), canvasToPdfDataUrl      *)
(* (src/unnamed/part_001:14-66) and convertToPdf (src/offscreen.js:165-221)*)
(* of the direct build.  Quotients are kept exact: a quotient a / b that   *)
(* the code rounds is rounded from the integers a and b.                   *)

MAX_DIM == 16384
MAX_PIXELS == 268435456
a4W == 210
a4H == 297
margin == 10
contentW == a4W - margin * 2
pageH == a4H - margin * 2

(* Math.round(a / b) for a >= 0, b > 0 *)
RoundDiv(a, b) == (2 * a + b) \div (2 * b)

StitchFns ==
  {"combineAndExport", "combineImages", "canvasToPdfDataUrl", "convertToPdf"}

(* combineAndExport: the test that selects the CSS-resolution fallback *)
TooLarge(w, h) == w > MAX_DIM \/ h > MAX_DIM \/ w * h > MAX_PIXELS

cssWidth(finalWidth, dpr2) == CeilDiv(2 * finalWidth, dpr2)
cssHeight(finalHeight, dpr2) == CeilDiv(2 * finalHeight, dpr2)

(* canvas.width and canvas.height.  Only combineAndExport looks at the     *)
(* limits; combineImages assigns finalWidth and finalHeight as they come   *)
outW(fn, finalWidth, finalHeight, dpr2) ==
  IF fn = "combineAndExport" /\ TooLarge(finalWidth, finalHeight)
  THEN cssWidth(finalWidth, dpr2) ELSE finalWidth

outH(fn, finalWidth, finalHeight, dpr2) ==
  IF fn = "combineAndExport" /\ TooLarge(finalWidth, finalHeight)
  THEN cssHeight(finalHeight, dpr2) ELSE finalHeight

(* the destination rectangle of ctx.drawImage for one capture.             *)
(* combineAndExport scales by outScale = outW / finalWidth; combineImages  *)
(* draws at the recorded offset and size                                   *)
DestRect(j, cap) ==
  IF j.fn = "combineAndExport"
  THEN [dy |-> RoundDiv(cap.dy * j.outW, j.finalWidth),
        w |-> CeilDiv(cap.sw * j.outW, j.finalWidth),
        h |-> CeilDiv(cap.sh * j.outW, j.finalWidth)]
  ELSE [dy |-> cap.dy, w |-> cap.sw, h |-> cap.sh]

(* scaledH / scaledHeight as a fraction n / d of millimetres.              *)
(* combineAndExport: (outH / outW) * contentW.  The other three divide the *)
(* canvas size by the pixel density first (displayHeight / displayWidth);  *)
(* generatePDF also multiplies both by the px-to-mm factor, which cancels  *)
ScaledHeight(fn, w, h, dpr2) ==
  IF fn = "combineAndExport" THEN [n |-> h * contentW, d |-> w]
  ELSE [n |-> (2 * h) * dpr2 * contentW, d |-> (2 * w) * dpr2]

(* the pixel density the function divides by: convertToPdf is sent 1 *)
PdfDpr2(fn, dpr2) == IF fn = "convertToPdf" THEN 2 ELSE dpr2

TotalPagesMutFloor(fn, w, h, dpr2) ==
  ScaledHeight(fn, w, h, PdfDpr2(fn, dpr2)).n
    \div (ScaledHeight(fn, w, h, PdfDpr2(fn, dpr2)).d * pageH)

(* totalPages = Math.ceil(scaledHeight / pageContentHeight) *)
TotalPages(fn, w, h, dpr2) ==
  CeilDiv(ScaledHeight(fn, w, h, PdfDpr2(fn, dpr2)).n,
          ScaledHeight(fn, w, h, PdfDpr2(fn, dpr2)).d * pageH)

(* Math.floor((page * pageH / scaledH) * outH): with scaledH =             *)
(* outH * contentW / outW the value is page * pageH * outW / contentW      *)
srcYStartMutCeil(pg, w, h) == CeilDiv(pg * pageH * w, contentW)

srcYStart(pg, w, h) == (pg * pageH * w) \div contentW

srcYEndMutCeil(pg, w, h) == Min(CeilDiv((pg + 1) * pageH * w, contentW), h)

srcYEnd(pg, w, h) == Min(((pg + 1) * pageH * w) \div contentW, h)

(* the clip paginators with the page step a4H in place of pageH *)
PageWindowsMutA4(fn, total, w, h) ==
  [k \in 1..total |->
     IF fn = "combineAndExport"
     THEN [start |-> srcYStart(k - 1, w, h), end |-> srcYEnd(k - 1, w, h)]
     ELSE [start |-> (k - 1) * a4H, end |-> (k - 1) * a4H + pageH]]

(* the for loop over the pages: in combineAndExport the source window of   *)
(* every page; the other three place the whole image on every page and     *)
(* clip it, the window is then the page's share of scaledHeight in mm      *)
PageWindows(fn, total, w, h) ==
  [k \in 1..total |->
     IF fn = "combineAndExport"
     THEN [start |-> srcYStart(k - 1, w, h), end |-> srcYEnd(k - 1, w, h)]
     ELSE [start |-> (k - 1) * pageH, end |-> k * pageH]]

(* Documents handed to the stitcher: the small pages, a page of 5000 px, a *)
(* page taller than the canvas limit and one above the pixel limit, with   *)
(* an even and an odd region width                                         *)
WidePage(rw, rh, d) ==
  [Geometry(16, rh, 1000, 1000, d) EXCEPT !.rectWidth = rw, !.innerWidth = 1200]

StitchPages ==
  {Geometry(16, rh, ih, 50, d) : rh \in {8, 68}, ih \in {21, 50}, d \in Dpr2s}
  \cup {ScenarioA}
  \cup {WidePage(rw, rh, d) :
          rw \in {968, 969}, rh \in {19968, 139968}, d \in Dpr2s}

(* the segments a failure-free capture loop hands over *)
CapturedSegments(pg) ==
  LET inf == detectAndMeasure(pg)
  IN  [k \in 1..CeilDiv(inf.height, inf.viewportHeight) |->
         SegmentOf(inf, scrollToPosition(pg, 0,
                          inf.top + (k - 1) * inf.viewportHeight))]

(* which capture, if any, holds a raster that cannot be decoded or drawn:  *)
(* none, the first, the second or the last                                 *)
BadCaptures(n) ==
  {[at |-> 0, how |-> "ok"]}
  \cup {[at |-> k, how |-> h] :
          k \in {1, 2, n} \cap (1..n), h \in {"decodeError", "drawError"}}

NewJob(fn, format, pg, bad) ==
  [NoJob EXCEPT
     !.pc = "alloc", !.fn = fn, !.format = format, !.bad = bad,
     !.finalWidth = CeilDpr(detectAndMeasure(pg).width, pg.dpr2),
     !.finalHeight = CeilDpr(detectAndMeasure(pg).height, pg.dpr2),
     !.dpr2 = pg.dpr2,
     !.captures = IF fn \in {"combineAndExport", "combineImages"}
                  THEN CapturedSegments(pg) ELSE <<>>]

VariantOf(fn) ==
  IF fn = "combineAndExport" THEN "hybrid"
  ELSE IF fn = "combineImages" THEN "offscreen" ELSE "direct"

InitStitch ==
  /\ page \in StitchPages
  /\ \E fn \in StitchFns, format \in {"png", "pdf"} :
       /\ fn \in {"canvasToPdfDataUrl", "convertToPdf"} => format = "pdf"
       /\ variant = VariantOf(fn)
       /\ \E bad \in BadCaptures(IF fn \in {"combineAndExport", "combineImages"}
                                  THEN Len(CapturedSegments(page)) ELSE 0) :
            job = NewJob(fn, format, page, bad)
  /\ scrollY = 0
  /\ noise = PlainNoise
  /\ display = ShownNoise
  /\ restores = [i \in 1..NumNoise |-> 0]
  /\ req = [r \in Reqs |-> InitReq]
  /\ offscreenReady = FALSE
  /\ offscreenDocs = 0
  /\ reqs = {}
  /\ doc = EmptyDoc
  /\ detected = NotDetected
  /\ scored = <<>>
  /\ noiseBackup = NoBackup
  /\ tab = NewTab

JobFails(j) == [j EXCEPT !.pc = "done", !.result = "error"]

(* the canvas is sized and filled white; getContext may give null in       *)
(* combineAndExport, the image of convertToPdf may fail to load            *)
AllocateSurface ==
  /\ job.pc = "alloc"
  /\ \/ job' = [job EXCEPT
                  !.pc = "draw",
                  !.outW = outW(job.fn, job.finalWidth, job.finalHeight, job.dpr2),
                  !.outH = outH(job.fn, job.finalWidth, job.finalHeight, job.dpr2)]
     \/ /\ job.fn \in {"combineAndExport", "convertToPdf"}
        /\ job' = JobFails(job)
  /\ UNCHANGED <<variant, page, scrollY, noise, display, restores, reqs, req,
                 offscreenReady, offscreenDocs, doc, detected, scored, noiseBackup, tab>>

(* one turn of the loop over the captures: the image is decoded and drawn. *)
(* A decode failure rejects in both functions.  A drawImage failure is     *)
(* caught by the outer try of combineAndExport, which returns {error};     *)
(* combineImages catches it inside the loop, logs it and goes on           *)
DrawCapture ==
  /\ job.pc = "draw"
  /\ job.next <= Len(job.captures)
  /\ LET cap == job.captures[job.next]
         outcome == IF job.bad.at = job.next THEN job.bad.how ELSE "ok"
         skip == job.fn = "combineImages" /\ cap.sh <= 0
     IN  job' =
           IF outcome = "decodeError"
           THEN JobFails([job EXCEPT !.failed = @ + 1])
           ELSE IF skip THEN [job EXCEPT !.next = @ + 1]
           ELSE IF outcome = "ok"
           THEN [job EXCEPT !.next = @ + 1,
                            !.dest = Append(@, DestRect(job, cap))]
           ELSE IF job.fn = "combineAndExport"
           THEN JobFails([job EXCEPT !.failed = @ + 1])
           ELSE [job EXCEPT !.next = @ + 1, !.failed = @ + 1]
  /\ UNCHANGED <<variant, page, scrollY, noise, display, restores, reqs, req,
                 offscreenReady, offscreenDocs, doc, detected, scored, noiseBackup, tab>>

(* after the loop: the PNG, or the pages of the PDF and its data URL *)
Export ==
  /\ job.pc = "draw"
  /\ job.next > Len(job.captures)
  /\ \/ /\ job.format = "png"
        /\ job' = [job EXCEPT !.pc = "done", !.result = "dataUrl"]
     \/ /\ job.format = "pdf"
        /\ LET total == TotalPages(job.fn, job.outW, job.outH, job.dpr2)
           IN  job' = [job EXCEPT
                         !.pc = "done", !.result = "dataUrl",
                         !.totalPages = total,
                         !.pages = PageWindows(job.fn, total, job.outW, job.outH)]
     \/ job' = JobFails(job)
  /\ UNCHANGED <<variant, page, scrollY, noise, display, restores, reqs, req,
                 offscreenReady, offscreenDocs, doc, detected, scored, noiseBackup, tab>>

NextStitch == AllocateSurface \/ DrawCapture \/ Export

SpecStitch == InitStitch /\ [][NextStitch]_vars

-----------------------------------------------------------------------------
(* Properties of stitching and export *)

Allocated == job.pc \in {"draw", "done"} /\ job.outW > 0

AllDrawn ==
  /\ job.pc \in {"draw", "done"}
  /\ job.failed = 0
  /\ job.next > Len(job.captures)

(* the destination rectangles follow one another from 0 to the height h,  *)
(* each as wide as the surface                                            *)
TilesSurface(dest, w, h) ==
  /\ Len(dest) > 0
  /\ dest[1].dy = 0
  /\ \A i \in 1..(Len(dest) - 1) : dest[i].dy + dest[i].h = dest[i + 1].dy
  /\ dest[Len(dest)].dy + dest[Len(dest)].h = h
  /\ \A i \in DOMAIN dest : dest[i].w = w

(* C11: the surface allocated for stitching has the size (finalWidth,      *)
(* finalHeight) when that is within the maximum dimension 16384 and the    *)
(* maximum pixel count 268435456; otherwise it is smaller in both          *)
(* dimensions, and in every case it exceeds neither limit.                 *)
C11_SurfaceWithinLimits ==
  (Allocated /\ job.fn \in {"combineAndExport", "combineImages"}) =>
    /\ ~TooLarge(job.finalWidth, job.finalHeight) =>
         job.outW = job.finalWidth /\ job.outH = job.finalHeight
    /\ TooLarge(job.finalWidth, job.finalHeight) =>
         job.outW < job.finalWidth /\ job.outH < job.finalHeight
    /\ ~TooLarge(job.outW, job.outH)

(* C12: when finalWidth * finalHeight exceeds the pixel cap, the surface   *)
(* of combineAndExport is smaller than (finalWidth, finalHeight) in both   *)
(* dimensions and the scaled destination rectangles of the segments fit    *)
(* and tile it: they follow one another from row 0 to the last row.        *)
C12_ScaledSegmentsTile ==
  (/\ job.fn = "combineAndExport"
   /\ AllDrawn
   /\ job.finalWidth * job.finalHeight > MAX_PIXELS) =>
    /\ job.outW < job.finalWidth
    /\ job.outH < job.finalHeight
    /\ TilesSurface(job.dest, job.outW, job.outH)

(* The same at pixel density 2 with an even width, where the fallback to   *)
(* CSS resolution halves every number exactly.                             *)
ScaledSegmentsTileAtDensity2 ==
  (/\ job.fn = "combineAndExport"
   /\ AllDrawn
   /\ job.dpr2 = 4
   /\ job.finalWidth * job.finalHeight > MAX_PIXELS) =>
    /\ 2 * job.outW = job.finalWidth
    /\ 2 * job.outH = job.finalHeight
    /\ TilesSurface(job.dest, job.outW, job.outH)

(* C13: when the raster of a segment fails to decode or to be drawn, the   *)
(* stitch operation ends with an error result: no data URL is returned.    *)
C13_StitchAbortsOnBadSegment ==
  (job.failed > 0 /\ job.pc = "done") => job.result = "error"

C15_PageWindowsContiguous ==
  (/\ job.fn = "combineAndExport"
   /\ job.pc = "done" /\ job.result = "dataUrl" /\ job.format = "pdf") =>
    /\ job.pages[1].start = 0
    /\ \A k \in 1..(job.totalPages - 1) :
         /\ job.pages[k].end = job.pages[k + 1].start
         /\ job.pages[k].start < job.pages[k].end
    /\ job.pages[job.totalPages].end = job.outH

(* a PDF of 38 pages cut from a surface of 92 x 5000                       *)
C15_Witness ==
  /\ job.fn = "combineAndExport"
  /\ job.pc = "done" /\ job.result = "dataUrl" /\ job.format = "pdf"
  /\ job.outW = 92 /\ job.outH = 5000
  /\ job.totalPages = 38
  /\ job.pages[2].start = 134

-----------------------------------------------------------------------------
(* scoreElement on its own: an element, the same element with more <p>     *)
(* descendants and the same element with more link text                    *)

ScoreTexts == {0, 40, 100}
ScoreLinks == {0, 12, 13, 20, 21, 30, 31, 50, 51}
ScoreParagraphs == {0, 1, 9, 10, 11}

ScorePool ==
  {e \in [tag : {"DIV", "SECTION"},
          textLen : ScoreTexts,
          cls : {""},
          underExcluded : {FALSE},
          hidden : {FALSE},
          role : {""}, itemprop : {""},
          pCount : ScoreParagraphs, imgCount : {0}, linkLen : ScoreLinks,
          inArticle : {FALSE}, inRoleArticle : {FALSE}] :
     e.linkLen <= e.textLen}

InitScore ==
  /\ \E e \in ScorePool, p \in ScoreParagraphs, l \in ScoreLinks :
       /\ p >= e.pCount
       /\ l >= e.linkLen /\ l <= e.textLen
       /\ doc = [els |-> <<e, [e EXCEPT !.pCount = p], [e EXCEPT !.linkLen = l]>>,
                 hasBody |-> TRUE]
  /\ variant = "hybrid"
  /\ page = SmallPage
  /\ scrollY = 0
  /\ noise = PlainNoise
  /\ display = ShownNoise
  /\ restores = [i \in 1..NumNoise |-> 0]
  /\ req = [r \in Reqs |-> InitReq]
  /\ offscreenReady = FALSE
  /\ offscreenDocs = 0
  /\ reqs = {}
  /\ detected = NotDetected
  /\ job = NoJob
  /\ scored = <<>>
  /\ noiseBackup = NoBackup
  /\ tab = NewTab

(* the scoring loop of detectArticle calls scoreElement on every element *)
ScoreElements ==
  /\ scored = <<>>
  /\ scored' = [i \in DOMAIN doc.els |-> scoreElement(doc.els[i])]
  /\ UNCHANGED <<variant, page, scrollY, noise, display, restores, reqs, req,
                 offscreenReady, offscreenDocs, doc, detected, job, noiseBackup,
                 tab>>

NextScore == ScoreElements

SpecScore == InitScore /\ [][NextScore]_vars

(* two elements that differ in nothing but the named field *)
SameBut(e, f, field) ==
  \A k \in DOMAIN e : k # field => e[k] = f[k]

(* C16: with every other input fixed, the score does not decrease when the *)
(* paragraph count grows, and is constant once pCount * 3 has reached the  *)
(* cap 30; it does not increase when the link density grows across the     *)
(* tiers 0.3 and 0.5.                                                      *)
C16_ScoreMonotone ==
  scored # <<>> =>
    \A i, j \in DOMAIN doc.els :
      /\ (SameBut(doc.els[i], doc.els[j], "pCount")
          /\ doc.els[i].pCount <= doc.els[j].pCount) =>
           /\ scored[i] <= scored[j]
           /\ doc.els[i].pCount * 3 >= 30 => scored[i] = scored[j]
      /\ (SameBut(doc.els[i], doc.els[j], "linkLen")
          /\ doc.els[i].linkLen <= doc.els[j].linkLen) =>
           scored[i] >= scored[j]

(* 9 -> 10 paragraphs adds 3 points; density 0.3 -> 0.51 takes 45 away *)
C16_Witness ==
  /\ scored # <<>>
  /\ doc.els[1].textLen = 100 /\ doc.els[1].pCount = 9 /\ doc.els[1].linkLen = 30
  /\ doc.els[2].pCount = 10
  /\ doc.els[3].linkLen = 51
  /\ scored[2] = scored[1] + 300
  /\ scored[3] = scored[1] - 4500

(* C17: when no semantic query is accepted, detectArticle returns the      *)
(* first element in document order among the eligible candidates of        *)
(* maximum score; when that score is below 10 (or nothing is eligible) it  *)
(* returns the body, so no candidate scoring below 10 is returned.         *)
C17_ArgmaxFirstOrRoot ==
  (detected.resp # "unset" /\ doc.hasBody /\ SemanticMatch(doc.els) = NoElement) =>
    IF \E i \in DOMAIN doc.els :
         IsCandidate(doc.els[i]) /\ scoreElement(doc.els[i]) >= AcceptScore100
    THEN /\ detected.el \in BestCandidates(doc.els)
         /\ \A j \in BestCandidates(doc.els) : detected.el <= j
         /\ scoreElement(doc.els[detected.el]) >= AcceptScore100
    ELSE detected.el = Body

(* two eligible candidates with the same score 13: the first is returned *)
C17_Witness ==
  /\ detected.resp # "unset" /\ doc.hasBody
  /\ SemanticMatch(doc.els) = NoElement
  /\ Len(doc.els) = 2
  /\ doc.els[1] = doc.els[2]
  /\ IsCandidate(doc.els[1])
  /\ scoreElement(doc.els[1]) = 1300
  /\ detected.el = 1

-----------------------------------------------------------------------------
(* The pipeline with its collaborators answering: every round trip that is *)
(* awaited is eventually answered (with a result or with an error) and the *)
(* service worker runs the continuation.  Among the documents is one whose *)
(* window reports innerHeight 0.                                           *)

ZeroViewportPage == Geometry(21, 8, 0, 50, 2)

LivePages == {SmallPage, Geometry(16, 68, 40, 50, 3), ZeroViewportPage}

InitLive ==
  /\ variant \in Variants
  /\ page \in (IF variant = "direct" THEN {SmallPage} ELSE LivePages)
  /\ scrollY \in InitialScrolls
  /\ noise = PlainNoise
  /\ display = ShownNoise
  /\ restores = [i \in 1..NumNoise |-> 0]
  /\ req = [r \in Reqs |-> InitReq]
  /\ offscreenReady = FALSE
  /\ offscreenDocs = 0
  /\ doc = EmptyDoc
  /\ detected = NotDetected
  /\ job = NoJob
  /\ scored = <<>>
  /\ noiseBackup = NoBackup
  /\ tab = NewTab
  /\ reqs = {1}

SpecLive == InitLive /\ [][Next]_vars /\ WF_vars(Next)

-----------------------------------------------------------------------------
(* Properties of the request as a whole *)

Responded(q) == q.pc \in {"done", "error"}

(* C18: every failure while a start-capture request is served ends the     *)
(* request with the response {success: false, error}: a request that met   *)
(* a failure does not answer success, and a request that ended in error    *)
(* has sent exactly the failure response.                                  *)
C18_NoFailureSwallowed ==
  \A r \in Reqs :
    /\ req[r].pc = "error" => req[r].responses = <<"failure">>
    /\ req[r].swallowed > 0 => ~(req[r].pc = "done")
    /\ req[r].pc = "done" => req[r].failedAt = "none"

(* the phases of a request, in their order *)
Phase(pc) ==
  CASE pc = "idle" -> 0
    [] pc \in {"inject", "detect", "hide", "getscroll"} -> 1
    [] pc \in {"loop", "capture", "measure", "restoreScroll"} -> 2
    [] pc \in {"stitch", "render", "rendering", "convert"} -> 3
    [] pc = "download" -> 4
    [] pc = "done" -> 5
    [] OTHER -> 6

C20_EventuallyResponds ==
  \A r \in Reqs : (req[r].pc # "idle") ~> Responded(req[r])

(* The same for the documents whose viewport height is positive: the loop  *)
(* adds viewportHeight to currentY in every turn and so comes to its end.  *)
RespondsWithPositiveViewport ==
  \A r \in Reqs :
    (req[r].pc # "idle" /\ page.innerHeight > 0) ~> Responded(req[r])

-----------------------------------------------------------------------------
(* The noise backup on document trees: hide-noise and restore-noise of the  *)
(* content script, on a document whose region is the body                   *)

MaxNodes == 4

RECURSIVE AncestorsOrSelf(_, _)
AncestorsOrSelf(els, i) ==
  IF i = 0 THEN {0} ELSE {i} \cup AncestorsOrSelf(els, els[i].parent)

(* the list is a document order: every element follows its parent, and an  *)
(* element that is not a child of the one before it closes some of that    *)
(* element's ancestors                                                     *)
DocumentOrder(els) ==
  \A i \in DOMAIN els :
    /\ els[i].parent < i
    /\ i > 1 => els[i].parent \in AncestorsOrSelf(els, i - 1)

TreeDocs ==
  UNION {{els \in [1..n -> [tag : {"DIV", "ASIDE"}, id : {0, 1},
                            parent : 0..(n - 1)]] : DocumentOrder(els)} :
         n \in 1..MaxNodes}

TreeDisplays(els) ==
  {d \in [DOMAIN els -> {"", "block"}] :
     \A i \in DOMAIN els : els[i].tag \notin REMOVE_TAGS => d[i] = ""}

InitNoise ==
  /\ variant = "offscreen"
  /\ page = SmallPage
  /\ scrollY = 0
  /\ noise \in TreeDocs
  /\ display \in TreeDisplays(noise)
  /\ restores = [i \in DOMAIN noise |-> 0]
  /\ req = [r \in Reqs |-> InitReq]
  /\ offscreenReady = FALSE
  /\ offscreenDocs = 0
  /\ reqs = {}
  /\ doc = EmptyDoc
  /\ detected = NotDetected
  /\ job = NoJob
  /\ scored = <<>>
  /\ noiseBackup = NoBackup
  /\ tab = NewTab

(* the hide-noise message: hideNoise() and the response {backup} *)
HideNoiseMessage ==
  /\ ~noiseBackup.answered
  /\ noiseBackup' = [answered |-> TRUE,
                      backup |-> hideNoiseBackup(noise, display)]
  /\ display' = hideNoiseDisplay(noise, display)
  /\ UNCHANGED <<variant, page, scrollY, noise, restores, reqs, req,
                 offscreenReady, offscreenDocs, doc, detected, job, scored,
                 tab>>

(* the restore-noise message with the backup of the response *)
RestoreNoiseMessage ==
  /\ noiseBackup.answered
  /\ \A i \in DOMAIN restores : restores[i] = 0
  /\ display' = restoreNoiseDisplay(noise, display, noiseBackup.backup, 1)
  /\ restores' = restoreNoiseCount(noise, restores, noiseBackup.backup, 1)
  /\ UNCHANGED <<variant, page, scrollY, noise, reqs, req, offscreenReady,
                 offscreenDocs, doc, detected, job, scored, noiseBackup, tab>>

NextNoise == HideNoiseMessage \/ RestoreNoiseMessage

SpecNoise == InitNoise /\ [][NextNoise]_vars

(* restoreNoise has run with a backup that names at least one element *)
RoundTripDone ==
  /\ noiseBackup.answered
  /\ \E i \in DOMAIN restores : restores[i] > 0

(* C23: after hideNoise and then restoreNoise with the backup, every       *)
(* element has the inline display it had before hideNoise, and every       *)
(* selector of the backup matches the element it was made for and no other *)
(* element of the document.                                                *)
C23_NoiseRoundTrip ==
  RoundTripDone =>
    /\ \A k \in DOMAIN noiseBackup.backup :
         /\ display[noiseBackup.backup[k].el] = noiseBackup.backup[k].display
         /\ {i \in DOMAIN noise :
               SelectorMatches(noise, noiseBackup.backup[k].selector, i)}
              = {noiseBackup.backup[k].el}
    /\ \A i \in DOMAIN noise :
         noise[i].tag \notin REMOVE_TAGS => display[i] = ""

(* the same round trip when no two elements carry the same id: the display *)
(* is still lost when a path selector matches an earlier element           *)
NoiseRoundTripUniqueIds ==
  (/\ RoundTripDone
   /\ \A i, j \in DOMAIN noise :
        (i # j /\ noise[i].id # 0) => noise[i].id # noise[j].id) =>
    \A k \in DOMAIN noiseBackup.backup :
      display[noiseBackup.backup[k].el] = noiseBackup.backup[k].display

-----------------------------------------------------------------------------
(* C22: in a run of the scroll-and-stitch orchestrator no captureVisibleTab *)
(* call happens while a noise element of the region is visible: whenever a  *)
(* request is about to call the capture primitive, every noise element has  *)
(* display "none".                                                          *)
C22_NoiseHiddenDuringCapture ==
  \A r \in reqs :
    (variant \in {"hybrid", "offscreen"} /\ req[r].pc = "capture") =>
      \A i \in DOMAIN display : display[i] = "none"

(* the same for the build that sends hide-noise *)
NoiseHiddenDuringCaptureOffscreen ==
  \A r \in reqs :
    (variant = "offscreen" /\ req[r].pc = "capture") =>
      \A i \in DOMAIN display : display[i] = "none"

(* C27: the detection result carries the scroll position of the document   *)
(* at detection time, and after a capture loop that succeeded the final    *)
(* scroll-to targets the offset the document had before the first scroll   *)
(* step of the request.                                                    *)
C27_ScrollRestoredToDetectionOffset ==
  \A r \in reqs :
    (variant \in {"hybrid", "offscreen"} /\ req[r].pc = "stitch") =>
      /\ req[r].info.scrollY = req[r].scroll0
      /\ req[r].origScroll = req[r].scroll0

(* the target of the final scroll-to alone, in the build that asks for the *)
(* scroll position with get-scroll-info                                    *)
FinalScrollTargetOffscreen ==
  \A r \in reqs :
    (variant = "offscreen" /\ req[r].pc = "stitch") =>
      req[r].origScroll = req[r].scroll0

C28_ClampedScrollCovers ==
  \A r \in Reqs :
    (Stitching /\ LoopFinished(req[r]) /\ ~req[r].exact) =>
      RegionRows(req[r].info) \subseteq Covered(req[r].segs)

(* the same when the padded region ends inside the document and the pixel *)
(* density is an integer                                                   *)
ClampedScrollCoversInsideDocument ==
  \A r \in Reqs :
    (/\ Stitching /\ LoopFinished(req[r]) /\ ~req[r].exact
     /\ req[r].info.top + req[r].info.height <= req[r].info.pageHeight
     /\ page.dpr2 \in {2, 4}) =>
      RegionRows(req[r].info) \subseteq Covered(req[r].segs)

(* the same for the integer pixel densities alone: the rows below the end  *)
(* of the document stay uncovered                                          *)
ClampedScrollCoversIntegerDensity ==
  \A r \in Reqs :
    (/\ Stitching /\ LoopFinished(req[r]) /\ ~req[r].exact
     /\ page.dpr2 \in {2, 4}) =>
      RegionRows(req[r].info) \subseteq Covered(req[r].segs)

(* C29: handling a detect-article message leaves the inline display of     *)
(* every element as it was before the call, with a result and with an      *)
(* error alike, although the noise elements are hidden during the          *)
(* measurement.                                                            *)
C29_DetectLeavesDisplay ==
  [][detected'.resp # detected.resp => display' = display]_vars

C29_Witness ==
  /\ detected.resp = "info"
  /\ detected.hiddenCount = NumNoise
  /\ \A i \in DOMAIN display : display[i] = "block"

-----------------------------------------------------------------------------
(* Injections of the content script into one document, and the messages    *)
(* the builds send to it                                                   *)

MaxInjections == 4
MaxMessages == 4

(* the message types each build sends to the tab *)
MessageTypes(v) ==
  IF v = "hybrid" THEN {"detect-article", "scroll-to"}
  ELSE IF v = "offscreen"
  THEN {"detect-article", "hide-noise", "get-scroll-info", "scroll-to",
        "restore-noise"}
  ELSE {"capture-article"}

InitInject ==
  /\ variant \in Variants
  /\ page = SmallPage
  /\ scrollY = 0
  /\ noise = PlainNoise
  /\ display = ShownNoise
  /\ restores = [i \in 1..NumNoise |-> 0]
  /\ req = [r \in Reqs |-> InitReq]
  /\ offscreenReady = FALSE
  /\ offscreenDocs = 0
  /\ reqs = {}
  /\ doc = EmptyDoc
  /\ detected = NotDetected
  /\ job = NoJob
  /\ scored = <<>>
  /\ noiseBackup = NoBackup
  /\ tab = NewTab

(* the click handler of the popup of the stitching builds injects the      *)
(* detector and content.js before it sends start-capture                   *)
PopupInject ==
  /\ variant \in {"hybrid", "offscreen"}
  /\ tab.injections < MaxInjections
  /\ tab' = [contentScript(tab) EXCEPT !.injections = @ + 1]
  /\ UNCHANGED <<variant, page, scrollY, noise, display, restores, reqs, req,
                 offscreenReady, offscreenDocs, doc, detected, job, scored,
                 noiseBackup>>

(* captureArticle injects again: content.js in the hybrid build, the        *)
(* capture script in the direct build                                      *)
CaptureInject ==
  /\ variant \in {"hybrid", "direct"}
  /\ tab.injections < MaxInjections
  /\ tab' = [(IF variant = "hybrid" THEN contentScript(tab)
              ELSE directScript(tab)) EXCEPT !.injections = @ + 1]
  /\ UNCHANGED <<variant, page, scrollY, noise, display, restores, reqs, req,
                 offscreenReady, offscreenDocs, doc, detected, job, scored,
                 noiseBackup>>

(* chrome.tabs.sendMessage after an injection: every registered listener   *)
(* runs, takes the branch of the type and calls sendResponse               *)
SendToTab ==
  /\ tab.injected
  /\ tab.sent < MaxMessages
  /\ \E type \in MessageTypes(variant) :
       tab' = [tab EXCEPT !.sent = @ + 1, !.message = type,
                          !.handled = tab.listeners,
                          !.answered = tab.listeners]
  /\ UNCHANGED <<variant, page, scrollY, noise, display, restores, reqs, req,
                 offscreenReady, offscreenDocs, doc, detected, job, scored,
                 noiseBackup>>

NextInject == PopupInject \/ CaptureInject \/ SendToTab

SpecInject == InitInject /\ [][NextInject]_vars

(* C30: after any number of injections of the content script into the same *)
(* document exactly one message listener of the script is registered, and  *)
(* every message sent to the tab is handled once and answered once.        *)
C30_OneListener ==
  /\ tab.injections > 0 => tab.listeners = 1
  /\ tab.sent > 0 => (tab.handled = 1 /\ tab.answered = 1)

C30_Witness ==
  /\ variant = "hybrid"
  /\ tab.injections = MaxInjections
  /\ tab.sent > 0
  /\ tab.message = "scroll-to"
  /\ tab.handled = 1

(* C26: in the direct-render build every noise element that captureArticle *)
(* hid has its original inline display assigned back exactly once when the *)
(* call has ended: after a render that succeeded, after the return for a   *)
(* missing jsPDF and after an exception of html2canvas or PDF generation.  *)
C26_DirectRestoresOnEveryExit ==
  \A r \in reqs :
    (variant = "direct" /\ req[r].pc \notin {"idle", "inject", "render", "rendering"}
       /\ req[r].failedAt \notin {"inject", "render"}) =>
      /\ Len(req[r].hiddenBackup) = NumNoise
      /\ \A k \in DOMAIN req[r].hiddenBackup :
           /\ restores[req[r].hiddenBackup[k].el] = 1
           /\ display[req[r].hiddenBackup[k].el] = req[r].hiddenBackup[k].original

C26_Witness ==
  \E r \in reqs :
    /\ variant = "direct"
    /\ req[r].pc = "error"
    /\ req[r].failedAt = "exception"
    /\ Len(req[r].hiddenBackup) = NumNoise
    /\ \A i \in DOMAIN display : display[i] = "block" /\ restores[i] = 1

(* C24: over every interleaving of ensureOffscreen calls createDocument is *)
(* invoked at most once, and whenever offscreenReady is true an offscreen  *)
(* document exists.                                                        *)
C24_EnsureOffscreenOnce ==
  /\ req[1].creates + req[2].creates <= 1
  /\ offscreenReady => offscreenDocs > 0

(* the first half alone: two requests between getContexts and the          *)
(* settlement of createDocument                                            *)
CreateDocumentAtMostOnce == req[1].creates + req[2].creates <= 1

(* the second half alone *)
ReadyImpliesDocument == offscreenReady => offscreenDocs > 0

(* the window of page k of the crop-based paginator on the surface of the  *)
(* job                                                                     *)
CropWindow(k) ==
  PageWindows("combineAndExport",
              TotalPages("combineAndExport", job.outW, job.outH, job.dpr2),
              job.outW, job.outH)[k]

ClipPdfDone ==
  /\ job.fn \in {"combineImages", "convertToPdf", "canvasToPdfDataUrl"}
  /\ job.pc = "done" /\ job.result = "dataUrl" /\ job.format = "pdf"

InsideRaster(seg, inf) ==
  /\ seg.sx >= 0
  /\ seg.sy >= 0
  /\ 2 * (seg.sx + seg.sw) <= inf.viewportWidth * inf.dpr2
  /\ 2 * (seg.sy + seg.sh) <= inf.viewportHeight * inf.dpr2

(* C31: every segment recorded by the capture loop has a source rectangle  *)
(* inside the captured viewport raster: sx >= 0, sy >= 0, sx + sw <=       *)
(* viewportWidth * density and sy + sh <= viewportHeight * density.        *)
C31_SourceInsideRaster ==
  \A r \in reqs :
    Stitching =>
      \A k \in DOMAIN req[r].segs : InsideRaster(req[r].segs[k], req[r].info)

(* the same when the padded region is no wider than the viewport and the   *)
(* pixel density is an integer                                             *)
SourceInsideRasterWhenRegionFits ==
  \A r \in reqs :
    (/\ Stitching
     /\ req[r].info.left + req[r].info.width <= req[r].info.viewportWidth
     /\ page.dpr2 \in {2, 4}) =>
      \A k \in DOMAIN req[r].segs : InsideRaster(req[r].segs[k], req[r].info)

(* the same for the integer densities alone: a region wider than the       *)
(* viewport still leaves the raster on the right                           *)
SourceInsideRasterIntegerDensity ==
  \A r \in reqs :
    (Stitching /\ page.dpr2 \in {2, 4}) =>
      \A k \in DOMAIN req[r].segs : InsideRaster(req[r].segs[k], req[r].info)

-----------------------------------------------------------------------------
(* The export branch of combineAndExport on its own: a filled surface of   *)
(* any small size, and a few on which a page boundary is a whole row       *)

MaxSurfaceW == 12
MaxSurfaceH == 40

SurfaceWidths == (1..MaxSurfaceW) \cup {190}
SurfaceHeights == (1..MaxSurfaceH) \cup {276, 277, 278, 554}

InitPaginate ==
  /\ variant = "hybrid"
  /\ page = SmallPage
  /\ scrollY = 0
  /\ noise = PlainNoise
  /\ display = ShownNoise
  /\ restores = [i \in 1..NumNoise |-> 0]
  /\ req = [r \in Reqs |-> InitReq]
  /\ offscreenReady = FALSE
  /\ offscreenDocs = 0
  /\ reqs = {}
  /\ doc = EmptyDoc
  /\ detected = NotDetected
  /\ \E w \in SurfaceWidths, h \in SurfaceHeights, format \in {"png", "pdf"} :
       job = [NoJob EXCEPT
                !.pc = "draw", !.fn = "combineAndExport", !.format = format,
                !.dpr2 = 2, !.finalWidth = w, !.finalHeight = h,
                !.outW = w, !.outH = h]
  /\ scored = <<>>
  /\ noiseBackup = NoBackup
  /\ tab = NewTab

NextPaginate == Export

SpecPaginate == InitPaginate /\ [][NextPaginate]_vars

(* C32: in the PDF branch of combineAndExport every page slice has a       *)
(* strictly positive source height: srcYEnd - srcYStart >= 1 for every     *)
(* page of every surface, so no page canvas of height 0 is encoded.        *)
C32_PageSlicesPositive ==
  (/\ job.fn = "combineAndExport"
   /\ job.pc = "done" /\ job.result = "dataUrl" /\ job.format = "pdf") =>
    /\ job.outW > 0 /\ job.outH > 0
    /\ Len(job.pages) = job.totalPages
    /\ \A k \in DOMAIN job.pages : job.pages[k].end - job.pages[k].start >= 1

(* a surface 7 wide and 31 high: c = 277 * 7 / 190 = 10.2 rows a page, four *)
(* pages, the last of them one row high                                    *)
C32_Witness ==
  /\ job.fn = "combineAndExport"
  /\ job.pc = "done" /\ job.result = "dataUrl" /\ job.format = "pdf"
  /\ job.outW = 7 /\ job.outH = 31
  /\ job.totalPages = 4
  /\ job.pages[4] = [start |-> 30, end |-> 31]

=============================================================================
